---- MODULE Spec2Model ----
(***************************************************************************)
(* Model of the EPUB batch editors epub_change_img_tag.py (svg figure ->   *)
(* img tag conversion) and epub_img_resize.py (responsive image styling):  *)
(* the archive rewrite (write_epub), the content edits, and the batch      *)
(* driver (main) with its file-system steps.                               *)
(*                                                                         *)
(* A path is a sequence of tokens ("OEBPS", "/", "a", ".xhtml"); no token  *)
(* is a suffix of another one, so Python's character-level `in` and        *)
(* endswith on the joined string are the token-level operators below.      *)
(***************************************************************************)
EXTENDS Integers, Sequences, FiniteSets, TLC

\* ------------------------------------------------------------------ bounds
MaxBatch == 2      \* archives in the working directory
MaxBody == 2       \* entries of an archive after its three header entries
MaxImgs == 1       \* images of a document of the image-edit specification
MaxClassLen == 2   \* tokens of an image's class attribute in that specification
MaxCliBatch == 2   \* archives in the target directory of a setup.py run
MaxCliBody == 1    \* entries after the header entries of those archives

\* ------------------------------------------------------------------ paths
\* str.endswith(suf)
EndsWith(p, suf) ==
    /\ Len(p) >= Len(suf)
    /\ SubSeq(p, Len(p) - Len(suf) + 1, Len(p)) = suf

\* Python `sub in p` on strings: sub occurs somewhere in p
Contains(sub, p) ==
    \E k \in 0..(Len(p) - Len(sub)) : SubSeq(p, k + 1, k + Len(sub)) = sub

\* re.search(r"/style\.css$", file_name)
IsStyleCss(file_name) == EndsWith(file_name, <<"/", "style", ".css">>)

StyleFileName == <<"Styles", "/", "style", ".css">>
StyleTargetPath == <<"OEBPS", "/", "Styles", "/", "style", ".css">>
OpfTargetPath == <<"OEBPS", "/", "content", ".opf">>
StyleHref == <<"..", "/", "Styles", "/", "style", ".css">>
TempEpubOpfPath == <<"EPUB", "/", "content", ".opf">>

\* The generated class name fit-xxxx (four random lowercase letters).  Class
\* names are symmetric, so one representative stands for the drawn name; the
\* documents may or may not carry it already.
Markers == {"fit-a"}

\* ------------------------------------------------------------------ images
\* An image of a document, as bs4 parses it: width/height present or not and
\* the class attribute (absent, or its value).  bs4 splits a class value on
\* whitespace into a list; the value is kept here as the list of its tokens
\* interleaved with " " separators, which is what str(soup) writes back.  A
\* value bs4 hands out as one str (classIsStr) is kept as its single token.
RECURSIVE SplitClass(_)
SplitClass(s) ==
    IF s = <<>> THEN <<>>
    ELSE IF Head(s) = " " THEN SplitClass(Tail(s))
    ELSE <<Head(s)>> \o SplitClass(Tail(s))

RECURSIVE JoinClass(_)
JoinClass(l) ==
    IF l = <<>> THEN <<>>
    ELSE IF Len(l) = 1 THEN l
    ELSE <<Head(l), " ">> \o JoinClass(Tail(l))

InList(x, l) == \E k \in 1..Len(l) : l[k] = x

\* img.get("class", []), with the isinstance(str) wrap of lines 99-101.
\* classIsStr is never set by the lxml tree builder (class is multi-valued).
ImgClasses(img) ==
    IF ~img.hasClass THEN <<>>
    ELSE IF img.classIsStr THEN img.class
    ELSE SplitClass(img.class)

\* the `modified` flag of one image: lines 93-95, 99-101, 102-105
ImgModified(img, style_class) ==
    \/ img.width
    \/ img.height
    \/ (img.hasClass /\ img.classIsStr)
    \/ ~InList(style_class, ImgClasses(img))

\* ImgEdit without the membership test of line 102: the class is always appended
ImgEditAlwaysAppend(img, style_class) ==
    [img EXCEPT !.width = FALSE, !.height = FALSE, !.hasClass = TRUE,
                !.classIsStr = FALSE,
                !.class = JoinClass(Append(ImgClasses(img), style_class))]

\* the edit of one image, lines 90-105, then written back by str(soup)
ImgEdit(img, style_class) ==
    LET stripped == [img EXCEPT !.width = FALSE, !.height = FALSE]
        img_classes == ImgClasses(img)
    IN  IF ~InList(style_class, img_classes)
        THEN [stripped EXCEPT !.hasClass = TRUE, !.classIsStr = FALSE,
                              !.class = JoinClass(Append(img_classes, style_class))]
        ELSE stripped

\* change_epub_html on one document's content, lines 86-108: content is
\* re-serialised only if some image was modified
ChangeDoc(content, style_class) ==
    IF \E k \in 1..Len(content.imgs) : ImgModified(content.imgs[k], style_class)
    THEN [content EXCEPT
            !.imgs = [k \in 1..Len(content.imgs) |-> ImgEdit(content.imgs[k], style_class)],
            !.norm = TRUE]
    ELSE content

\* ---------------------------------------------------------------- contents
\* The bytes of an archive entry, by what the program can tell apart: where
\* they came from (id), and for the kinds the program edits, their structure.
\* norm: the text was written by str(soup) (lxml's serialisation), which is
\* not the original text of an XHTML file.
Raw(id) ==
    [kind |-> "raw", id |-> id, norm |-> FALSE, links |-> <<>>, figs |-> 0,
     imgs |-> <<>>, rules |-> <<>>, items |-> <<>>]

Doc(id, figs, imgs) == [Raw(id) EXCEPT !.kind = "doc", !.figs = figs, !.imgs = imgs]

Css(id, rules) == [Raw(id) EXCEPT !.kind = "css", !.rules = rules]

Opf(id, items) == [Raw(id) EXCEPT !.kind = "opf", !.items = items]

PlainImg == [width |-> FALSE, height |-> FALSE, hasClass |-> FALSE,
             classIsStr |-> FALSE, class |-> <<>>]

\* an archive entry; part is the file_name of the package part whose content
\* write_epub wrote under the path (<<>> for bytes copied from the source)
Entry(path, content) == [path |-> path, content |-> content, part |-> <<>>]

PartEntry(path, item) == [path |-> path, content |-> item.content, part |-> item.file_name]

\* a file of the working directory
Absent == [exists |-> FALSE, complete |-> FALSE, opfDir |-> <<>>, entries |-> <<>>]

Archive(opfDir, entries) ==
    [exists |-> TRUE, complete |-> TRUE, opfDir |-> opfDir, entries |-> entries]

\* a .temp file whose ZipFile raised before close()
Partial(opfDir, entries) ==
    [exists |-> TRUE, complete |-> FALSE, opfDir |-> opfDir, entries |-> entries]

RECURSIVE Flatten(_)
Flatten(ss) == IF ss = <<>> THEN <<>> ELSE Head(ss) \o Flatten(Tail(ss))

Paths(entries) == [k \in 1..Len(entries) |-> entries[k].path]

\* ZipFile.read(name): the entry stored last under the name
ContentAt(entries, path) ==
    entries[CHOOSE k \in 1..Len(entries) :
                /\ entries[k].path = path
                /\ \A j \in (k + 1)..Len(entries) : entries[j].path # path].content

\* ------------------------------------------------------------ the package
\* epub.read_epub: the parts the package descriptor lists, in manifest order,
\* each with the bytes of the entry at <descriptor directory>/<href>.  A part
\* is an EpubHtml when its media type is XHTML (here: the .xhtml extension).
IsHtml(item) == item.kind = "html"

ReadEpub(file) ==
    LET manifest == ContentAt(file.entries, file.opfDir \o <<"content", ".opf">>).items
    IN  [k \in 1..Len(manifest) |->
            [file_name |-> manifest[k],
             kind |-> IF EndsWith(manifest[k], <<".xhtml">>) THEN "html"
                      ELSE IF EndsWith(manifest[k], <<".css">>) THEN "css" ELSE "other",
             content |-> ContentAt(file.entries, file.opfDir \o manifest[k])]]

FileNames(book) == [k \in 1..Len(book) |-> book[k].file_name]

\* ----------------------------------------------- epub_change_img_tag.py
\* convert_svg_to_img, lines 21-41: every figure.illust with an svg image is
\* replaced by a bare <img src>, and every EpubHtml is written back by str(soup)
ConvertItem(item) ==
    IF IsHtml(item)
    THEN [item EXCEPT !.content =
            [item.content EXCEPT
                !.figs = 0,
                !.imgs = item.content.imgs \o [k \in 1..item.content.figs |-> PlainImg],
                !.norm = TRUE]]
    ELSE item

ConvertBook(book) == [k \in 1..Len(book) |-> ConvertItem(book[k])]

\* what the substitution loop writes for one .xhtml/.css source entry: one
\* entry per part whose file_name occurs in the entry's path (line 64 / 133)
MatchedWrites(e, book) ==
    LET hit == SelectSeq(book, LAMBDA item : Contains(item.file_name, e.path))
    IN  [k \in 1..Len(hit) |-> PartEntry(e.path, hit[k])]

\* write_epub of epub_change_img_tag.py, lines 59-67, for one source entry
TagEntryWrites(e, book) ==
    IF EndsWith(e.path, <<".xhtml">>) THEN MatchedWrites(e, book) ELSE <<e>>

\* write_epub of epub_change_img_tag.py, lines 51-70: the output entries
TagWriteEpub(book, file) ==
    Flatten([k \in 1..Len(file.entries) |-> TagEntryWrites(file.entries[k], book)])
\* -------------------------------------------------- epub_img_resize.py
\* lines 34-41: the first part whose file_name ends in /style.css (0: none)
StyleIndex(book) ==
    IF \E k \in 1..Len(book) : IsStyleCss(book[k].file_name)
    THEN CHOOSE k \in 1..Len(book) :
            /\ IsStyleCss(book[k].file_name)
            /\ \A j \in 1..(k - 1) : ~IsStyleCss(book[j].file_name)
    ELSE 0

\* lines 60-65: the stylesheet link appended to the head of an EpubHtml
LinkItem(item) ==
    IF IsHtml(item)
    THEN [item EXCEPT !.content =
            [item.content EXCEPT !.links = Append(item.content.links, StyleHref),
                                 !.norm = TRUE]]
    ELSE item

\* write_epub_style, lines 43-65: the rule block is appended to the found
\* stylesheet, or a new part Styles/style.css is added and linked everywhere
AddStyle(book, fit_class) ==
    LET si == StyleIndex(book)
    IN  IF si # 0
        THEN [book EXCEPT ![si].content.rules = Append(book[si].content.rules, fit_class)]
        ELSE LET added == Append(book, [file_name |-> StyleFileName, kind |-> "css",
                                        content |-> Css(<<"new">>, <<fit_class>>)])
             IN  [k \in 1..Len(added) |-> LinkItem(added[k])]

\* change_epub_html, lines 83-108, over the parts of the book
ChangeEpubHtml(book, style_class) ==
    [k \in 1..Len(book) |->
        IF IsHtml(book[k])
        THEN [book[k] EXCEPT !.content = ChangeDoc(book[k].content, style_class)]
        ELSE book[k]]

\* write_epub of epub_img_resize.py, lines 124-139, for one source entry
ResizeEntryWrites(e, book) ==
    IF EndsWith(e.path, <<".xhtml">>) \/ EndsWith(e.path, <<".css">>)
    THEN MatchedWrites(e, book)
    ELSE <<e>>

\* the value of `modified` after the loop of lines 123-139: it is reset for
\* every entry (line 126), so it is what the LAST entry left in it: set when
\* that entry is .xhtml/.css and the part Styles/style.css matched it.  (The
\* source archives here always have entries; with none, line 141 would raise
\* NameError.)
ModifiedAfterLoop(book, file) ==
    LET last == file.entries[Len(file.entries)]
    IN  /\ EndsWith(last.path, <<".xhtml">>) \/ EndsWith(last.path, <<".css">>)
        /\ \E k \in 1..Len(book) :
              /\ Contains(book[k].file_name, last.path)
              /\ book[k].file_name = StyleFileName

\* lines 123-139: what the loop over the source entries writes
ResizeLoopWrites(book, file) ==
    Flatten([k \in 1..Len(file.entries) |-> ResizeEntryWrites(file.entries[k], book)])

\* lines 143-145: the stylesheet written again under OEBPS/Styles/style.css
StyleAppend(book) ==
    LET hit == SelectSeq(book, LAMBDA item : item.file_name = StyleFileName)
    IN  [k \in 1..Len(hit) |-> PartEntry(StyleTargetPath, hit[k])]

\* line 146, epub.write_epub("temp.epub", book): ebooklib writes the whole
\* book under EPUB/, with a package descriptor listing every part of the book
TempEpub(book) ==
    Archive(<<"EPUB", "/">>,
        << Entry(<<"mimetype">>, Raw(<<"mimetype">>)),
           Entry(<<"META-INF", "/", "container", ".xml">>, Raw(<<"generated">>)),
           Entry(TempEpubOpfPath, Opf(<<"generated">>, FileNames(book))) >>
        \o [k \in 1..Len(book) |->
                Entry(<<"EPUB", "/">> \o book[k].file_name, book[k].content)])

\* lines 147-154: every .opf entry of temp.epub is written as OEBPS/content.opf
OpfAppend(book) ==
    LET gen == SelectSeq(TempEpub(book).entries, LAMBDA e : EndsWith(e.path, <<".opf">>))
    IN  [k \in 1..Len(gen) |-> Entry(OpfTargetPath, gen[k].content)]

\* write_epub of epub_img_resize.py, lines 117-157: the output entries
ResizeWriteEpub(book, file) ==
    IF ModifiedAfterLoop(book, file)
    THEN ResizeLoopWrites(book, file)
    ELSE ResizeLoopWrites(book, file) \o StyleAppend(book) \o OpfAppend(book)
\* ------------------------------------------------------ source archives
\* The archives the working directory may hold: the three header entries
\* (mimetype, the container file, the package descriptor under the package
\* directory) followed by up to MaxBody distinct entries.  Every body entry is
\* a part the descriptor lists, except the stray document.
OpfDirs == { <<"OEBPS", "/">>, <<"EPUB", "/">> }
DocName == <<"Text", "/", "a", ".xhtml">>
RootDocName == <<"a", ".xhtml">>
StrayDocName == <<"Text", "/", "x", ".xhtml">>
RelNames == {DocName, RootDocName, StrayDocName, StyleFileName}

Listed(name) == name # StrayDocName

ClassedImg == [width |-> TRUE, height |-> TRUE, hasClass |-> TRUE,
               classIsStr |-> FALSE, class |-> <<"c">>]

InitialContent(opfDir, name) ==
    IF name = DocName THEN Doc(opfDir \o name, 1, <<ClassedImg>>)
    ELSE IF name = StyleFileName THEN Css(opfDir \o name, <<"orig">>)
    ELSE Doc(opfDir \o name, 0, <<>>)

Bodies ==
    UNION { { b \in [1..n -> RelNames] : \A x, y \in 1..n : b[x] = b[y] => x = y }
            : n \in 1..MaxBody }

SourceArchive(opfDir, body) ==
    Archive(opfDir,
        << Entry(<<"mimetype">>, Raw(<<"mimetype">>)),
           Entry(<<"META-INF", "/", "container", ".xml">>, Raw(opfDir)),
           Entry(opfDir \o <<"content", ".opf">>,
                 Opf(opfDir, SelectSeq(body, Listed))) >>
        \o [k \in 1..Len(body) |->
                Entry(opfDir \o body[k], InitialContent(opfDir, body[k]))])

Sources == { SourceArchive(d, b) : d \in OpfDirs, b \in Bodies }

\* ---------------------------------------------------------------- state
VARIABLES
    script,    \* which script runs: "tag" or "resize"
    pre,       \* the archives of the directory before the run, in glob order
    disk,      \* the file at each archive's path
    tmp,       \* the file at each archive's path + ".temp"
    tempEpub,  \* the file temp.epub of the working directory
    out,       \* what write_epub wrote and closed for each archive (Absent: nothing)
    fate,      \* the stage at which the archive's processing failed, "ok", or "pending"
    i,         \* the archive of the current loop iteration
    pc,        \* the driver's position in that iteration
    doc,       \* image-edit specification: the document's content
    marker,    \* image-edit specification: the class name
    applied,   \* image-edit specification: how often the edit ran
    doc0,      \* image-edit specification: the content before the first run
    first,     \* image-edit specification: the content after the first run
    action,    \* setup.py: the -a argument
    dirValid,  \* setup.py: the -d argument names an existing directory
    depsOk,    \* setup.py: ebooklib, bs4 and lxml can be imported
    step,      \* setup.py: the run_script call in progress (0: none yet)
    exitCode,  \* setup.py: the code main exited with (-1: still running)
    everFailed \* setup.py: an archive's processing failed in a finished script run

vars == <<script, pre, disk, tmp, tempEpub, out, fate, i, pc, doc, marker, applied, doc0, first,
          action, dirValid, depsOk, step, exitCode, everFailed>>

cliVars == <<action, dirValid, depsOk, step, exitCode, everFailed>>

imgVars == <<doc, marker, applied, doc0, first>>
batchVars == <<script, pre, disk, tmp, tempEpub, out, fate, i, pc>>

N == Len(pre)

Stages == {"ok", "open", "transform", "write"}

\* read_epub raises on a file that is no complete archive (an unclosed .temp
\* file renamed over the archive lacks its last entries)
StagesFor(file) == IF file.complete THEN Stages ELSE {"open"}

Init ==
    /\ script \in {"tag", "resize"}
    /\ pre \in UNION { [1..n -> Sources] : n \in 1..MaxBatch }
    /\ disk = pre
    /\ tmp = [k \in 1..Len(pre) |-> Absent]
    /\ tempEpub = Absent
    /\ out = [k \in 1..Len(pre) |-> Absent]
    /\ fate = [k \in 1..Len(pre) |-> "pending"]
    /\ i = 1
    /\ pc = "try"
    /\ doc = Doc(<<>>, 0, <<>>)
    /\ marker = "fit-a"
    /\ applied = 0
    /\ doc0 = Doc(<<>>, 0, <<>>)
    /\ first = Doc(<<>>, 0, <<>>)
    /\ action = "none"
    /\ dirValid = TRUE
    /\ depsOk = TRUE
    /\ step = 0
    /\ exitCode = -1
    /\ everFailed = FALSE

\* enumerate(epub_files, 1): the next iteration, or the end of the loop
Advance ==
    /\ i' = i + 1
    /\ pc' = IF i = N THEN "done" ELSE "try"

\* ------------------------------------ main of epub_change_img_tag.py
\* lines 86-92: convert_svg_to_img(epub_name).  It catches every exception of
\* read_epub, of the edit and of write_epub (lines 47-48) and returns, so the
\* driver goes on to line 94 whatever happened.  A failed write leaves the
\* entries written so far in the .temp file (or no file, when it could not be
\* created).
TagProcess ==
    /\ script = "tag"
    /\ pc = "try"
    /\ \E stage \in StagesFor(disk[i]) :
        LET file == disk[i]
            full == TagWriteEpub(ConvertBook(ReadEpub(file)), file)
        IN  /\ fate' = [fate EXCEPT ![i] = stage]
            /\ CASE stage = "ok" ->
                      /\ tmp' = [tmp EXCEPT ![i] = Archive(file.opfDir, full)]
                      /\ out' = [out EXCEPT ![i] = Archive(file.opfDir, full)]
                 [] stage = "write" ->
                      /\ \/ \E n \in 0..(Len(full) - 1) :
                              tmp' = [tmp EXCEPT ![i] = Partial(file.opfDir, SubSeq(full, 1, n))]
                         \/ tmp' = tmp
                      /\ out' = out
                 [] OTHER ->
                      /\ tmp' = tmp
                      /\ out' = out
    /\ pc' = "remove"
    /\ UNCHANGED <<script, pre, disk, tempEpub, i, imgVars, cliVars>>

\* line 94: os.remove(epub_name)
TagRemove ==
    /\ script = "tag"
    /\ pc = "remove"
    /\ disk' = [disk EXCEPT ![i] = Absent]
    /\ pc' = "rename"
    /\ UNCHANGED <<script, pre, tmp, tempEpub, out, fate, i, imgVars, cliVars>>

\* line 95: os.rename(output_name, epub_name); FileNotFoundError ends main
TagRename ==
    /\ script = "tag"
    /\ pc = "rename"
    /\ IF tmp[i].exists
       THEN /\ disk' = [disk EXCEPT ![i] = tmp[i]]
            /\ tmp' = [tmp EXCEPT ![i] = Absent]
            /\ Advance
       ELSE /\ pc' = "crashed"
            /\ UNCHANGED <<disk, tmp, i>>
    /\ UNCHANGED <<script, pre, tempEpub, out, fate, imgVars, cliVars>>
\* --------------------------------------- main of epub_img_resize.py
\* lines 175-181: write_epub_style(epub_name).  A failure of read_epub or of
\* the stylesheet step is caught at lines 67-69, one of the image edit at lines
\* 110-112; both return, and the driver goes on to line 183.  write_epub runs
\* outside both try blocks (line 114), so its exception reaches the driver's
\* except clause, which continues with the next archive.  temp.epub is
\* written only on the regeneration path (line 146).
ResizeProcess ==
    /\ script = "resize"
    /\ pc = "try"
    /\ \E stage \in StagesFor(disk[i]), fit_class \in Markers :
        LET file == disk[i]
            book == ChangeEpubHtml(AddStyle(ReadEpub(file), fit_class), fit_class)
            full == ResizeWriteEpub(book, file)
            regen == ~ModifiedAfterLoop(book, file)
        IN  /\ fate' = [fate EXCEPT ![i] = stage]
            /\ CASE stage = "ok" ->
                      /\ tmp' = [tmp EXCEPT ![i] = Archive(file.opfDir, full)]
                      /\ out' = [out EXCEPT ![i] = Archive(file.opfDir, full)]
                      /\ tempEpub' = IF regen THEN TempEpub(book) ELSE tempEpub
                      /\ pc' = "remove"
                      /\ i' = i
                 [] stage = "write" ->
                      /\ \/ \E n \in 0..(Len(full) - 1) :
                              /\ tmp' = [tmp EXCEPT ![i] = Partial(file.opfDir, SubSeq(full, 1, n))]
                              /\ \/ tempEpub' = tempEpub
                                 \/ /\ regen
                                    /\ n = Len(full) - 1
                                    /\ tempEpub' = TempEpub(book)
                         \/ /\ tmp' = tmp
                            /\ tempEpub' = tempEpub
                      /\ out' = out
                      /\ Advance
                 [] OTHER ->
                      /\ UNCHANGED <<tmp, out, tempEpub, i>>
                      /\ pc' = "remove"
    /\ UNCHANGED <<script, pre, disk, imgVars, cliVars>>

\* line 183: os.remove(epub_name)
ResizeRemove ==
    /\ script = "resize"
    /\ pc = "remove"
    /\ disk' = [disk EXCEPT ![i] = Absent]
    /\ pc' = "removeTemp"
    /\ UNCHANGED <<script, pre, tmp, tempEpub, out, fate, i, imgVars, cliVars>>

\* line 184: os.remove("temp.epub"); FileNotFoundError ends main
ResizeRemoveTemp ==
    /\ script = "resize"
    /\ pc = "removeTemp"
    /\ IF tempEpub.exists
       THEN /\ tempEpub' = Absent
            /\ pc' = "rename"
       ELSE /\ pc' = "crashed"
            /\ tempEpub' = tempEpub
    /\ UNCHANGED <<script, pre, disk, tmp, out, fate, i, imgVars, cliVars>>

\* line 185: os.rename(output_name, epub_name); FileNotFoundError ends main
ResizeRename ==
    /\ script = "resize"
    /\ pc = "rename"
    /\ IF tmp[i].exists
       THEN /\ disk' = [disk EXCEPT ![i] = tmp[i]]
            /\ tmp' = [tmp EXCEPT ![i] = Absent]
            /\ Advance
       ELSE /\ pc' = "crashed"
            /\ UNCHANGED <<disk, tmp, i>>
    /\ UNCHANGED <<script, pre, tempEpub, out, fate, imgVars, cliVars>>

Next ==
    \/ TagProcess
    \/ TagRemove
    \/ TagRename
    \/ ResizeProcess
    \/ ResizeRemove
    \/ ResizeRemoveTemp
    \/ ResizeRename

Spec == Init /\ [][Next]_vars

\* ------------------------------------------- image-edit specification
\* change_epub_html run on one document, and run again on its result.
ClassNames == {"c", "fit-a"}

ClassLists == UNION { [1..n -> ClassNames] : n \in 0..MaxClassLen }

Imgs ==
    { [width |-> w, height |-> h, hasClass |-> TRUE, classIsStr |-> FALSE,
       class |-> JoinClass(l)] : w \in BOOLEAN, h \in BOOLEAN, l \in ClassLists }
    \cup
    { [width |-> w, height |-> h, hasClass |-> FALSE, classIsStr |-> FALSE,
       class |-> <<>>] : w \in BOOLEAN, h \in BOOLEAN }

ImgInit ==
    /\ doc \in { [Doc(<<"doc">>, 0, imgs) EXCEPT !.norm = nm] :
                    imgs \in UNION { [1..n -> Imgs] : n \in 0..MaxImgs },
                    nm \in BOOLEAN }
    /\ marker \in Markers
    /\ applied = 0
    /\ doc0 = doc
    /\ first = doc
    /\ action = "none"
    /\ dirValid = TRUE
    /\ depsOk = TRUE
    /\ step = 0
    /\ exitCode = -1
    /\ everFailed = FALSE
    /\ script = "resize"
    /\ pre = <<>>
    /\ disk = <<>>
    /\ tmp = <<>>
    /\ tempEpub = Absent
    /\ out = <<>>
    /\ fate = <<>>
    /\ i = 1
    /\ pc = "done"

ImgApply ==
    /\ applied < 2
    /\ doc' = ChangeDoc(doc, marker)
    /\ applied' = applied + 1
    /\ first' = IF applied = 0 THEN doc' ELSE first
    /\ UNCHANGED <<marker, doc0, batchVars, cliVars>>

ImgNext == ImgApply

ImgSpec == ImgInit /\ [][ImgNext]_vars

\* ------------------------------------------------- setup.py, -a <action>
\* A command-line run of setup.py with an action: main validates the target
\* directory and the dependencies, process_epub_files looks for archives, and
\* run_script runs the script(s) in the target directory as subprocesses,
\* whose exit status is 0 when the script's main returned and 1 when an
\* exception ended it.
CliActions == {"change_tag", "resize", "all"}

CliSources ==
    { SourceArchive(d, b) : d \in OpfDirs, b \in { c \in Bodies : Len(c) <= MaxCliBody } }

CliInit ==
    /\ action \in CliActions
    /\ dirValid \in BOOLEAN
    /\ depsOk \in BOOLEAN
    /\ step = 0
    /\ exitCode = -1
    /\ everFailed = FALSE
    /\ script = "tag"
    /\ pre \in UNION { [1..n -> CliSources] : n \in 0..MaxCliBatch }
    /\ disk = pre
    /\ tmp = [k \in 1..Len(pre) |-> Absent]
    /\ tempEpub = Absent
    /\ out = [k \in 1..Len(pre) |-> Absent]
    /\ fate = [k \in 1..Len(pre) |-> "pending"]
    /\ i = 1
    /\ pc = "idle"
    /\ doc = Doc(<<>>, 0, <<>>)
    /\ marker = "fit-a"
    /\ applied = 0
    /\ doc0 = Doc(<<>>, 0, <<>>)
    /\ first = Doc(<<>>, 0, <<>>)

\* Action.script_name, and the first script of Action.ALL (line 215)
FirstScript(a) == IF a = "resize" THEN "resize" ELSE "tag"

\* result.returncode (line 165): the interpreter exits with 0 when the
\* script's main returned, with 1 when an uncaught exception ended it
ReturnCode == IF pc = "done" THEN 0 ELSE 1

\* main, lines 434-456, and process_epub_files, lines 190-205/215: exit 1 on
\* an invalid directory, on missing dependencies and when the directory holds
\* no archive; otherwise the (first) script is started
CliStart ==
    /\ exitCode = -1
    /\ step = 0
    /\ IF ~dirValid \/ ~depsOk \/ N = 0
       THEN /\ exitCode' = 1
            /\ UNCHANGED <<step, script, pc>>
       ELSE /\ step' = 1
            /\ script' = FirstScript(action)
            /\ pc' = "try"
            /\ exitCode' = exitCode
    /\ UNCHANGED <<pre, disk, tmp, tempEpub, out, fate, i, imgVars,
                   action, dirValid, depsOk, everFailed>>

\* run_script returns (line 165); process_epub_files, lines 206-227, and
\* main, lines 459-467: a nonzero status ends the run with exit code 1; after
\* step 1 of `all` the resize script is started on the directory as it is
\* now; otherwise the run ends with exit code 0
CliScriptEnd ==
    /\ exitCode = -1
    /\ step \in {1, 2}
    /\ pc \in {"done", "crashed"}
    /\ everFailed' = (everFailed \/ \E k \in 1..N : fate[k] \in {"open", "transform", "write"})
    /\ IF ReturnCode # 0
       THEN /\ exitCode' = 1
            /\ UNCHANGED <<step, script, pc, i, fate, out>>
       ELSE IF action = "all" /\ step = 1
       THEN /\ step' = 2
            /\ script' = "resize"
            /\ pc' = "try"
            /\ i' = 1
            /\ fate' = [k \in 1..N |-> "pending"]
            /\ out' = [k \in 1..N |-> Absent]
            /\ exitCode' = exitCode
       ELSE /\ exitCode' = 0
            /\ UNCHANGED <<step, script, pc, i, fate, out>>
    /\ UNCHANGED <<pre, disk, tmp, tempEpub, imgVars, action, dirValid, depsOk>>

CliNext ==
    \/ CliStart
    \/ CliScriptEnd
    \/ TagProcess
    \/ TagRemove
    \/ TagRename
    \/ ResizeProcess
    \/ ResizeRemove
    \/ ResizeRemoveTemp
    \/ ResizeRename

CliSpec == CliInit /\ [][CliNext]_vars

\* ================================================================ claims
\* helpers of the claims' formulas
Failures == {"open", "transform", "write"}

\* the driver has just left the iteration of archive k
JustAfter(k) ==
    \/ i = k + 1 /\ pc \in {"try", "done"}
    \/ i = k /\ pc = "crashed"

Terminated == pc \in {"done", "crashed"}

HasEntry(entries, path, content) ==
    \E x \in 1..Len(entries) : entries[x].path = path /\ entries[x].content = content

PathSet(entries) == { entries[x].path : x \in 1..Len(entries) }

\* the source entries the script's transforms target: the documents of the
\* package and, for responsive styling, the stylesheet the rule is appended to
Targeted(file) ==
    LET book == ReadEpub(file)
    IN  { file.opfDir \o book[x].file_name :
            x \in { y \in 1..Len(book) :
                      \/ IsHtml(book[y])
                      \/ script = "resize" /\ y = StyleIndex(book) } }

\* the paths of the parts of the loaded package
PartPaths(file) ==
    LET book == ReadEpub(file)
    IN  { file.opfDir \o book[x].file_name : x \in 1..Len(book) }

ClassCount(l, x) == Cardinality({ y \in 1..Len(l) : l[y] = x })

\* C1 (entry preservation): every source entry that no transform targets is in
\* the rewritten archive under the same path with the same bytes
C1_EntryPreservation ==
    \A k \in 1..N :
        fate[k] = "ok" =>
            \A x \in 1..Len(pre[k].entries) :
                LET e == pre[k].entries[x]
                IN  e.path \notin Targeted(pre[k]) =>
                        HasEntry(out[k].entries, e.path, e.content)

\* C2 (order preservation): the output's paths, restricted to the paths of the
\* source archive, are the source's paths in the source's order, each once
C2_OrderPreservation ==
    \A k \in 1..N :
        fate[k] = "ok" =>
            SelectSeq(Paths(out[k].entries),
                      LAMBDA p : p \in PathSet(pre[k].entries))
                = Paths(pre[k].entries)

\* C3 (exact-path substitution): a part's content is written under a source
\* entry only if the entry's path is the part's path, a source entry receives
\* the content of at most one part, and an entry that is no part's path keeps
\* its bytes
C3_ExactPathSubstitution ==
    \A k \in 1..N :
        fate[k] = "ok" =>
            /\ \A x \in 1..Len(out[k].entries) :
                  LET o == out[k].entries[x]
                  IN  (o.part # <<>> /\ o.path \in PathSet(pre[k].entries))
                          => o.path = pre[k].opfDir \o o.part
            /\ \A p \in PathSet(pre[k].entries) :
                  Cardinality({ out[k].entries[x].part :
                                  x \in { y \in 1..Len(out[k].entries) :
                                            /\ out[k].entries[y].path = p
                                            /\ out[k].entries[y].part # <<>> } }) <= 1
            /\ \A x \in 1..Len(pre[k].entries) :
                  LET e == pre[k].entries[x]
                  IN  e.path \notin PartPaths(pre[k]) =>
                          HasEntry(out[k].entries, e.path, e.content)

\* C4 (unique entry paths): no two entries of a rewritten archive share a path
C4_UniqueEntryPaths ==
    \A k \in 1..N :
        fate[k] = "ok" =>
            \A x, y \in 1..Len(out[k].entries) :
                out[k].entries[x].path = out[k].entries[y].path => x = y

\* C5 (atomicity on failure): when the processing of an archive failed, then
\* right after its iteration the file at its path is the pre-run file and
\* neither its .temp file nor temp.epub is on disk
C5_AtomicOnFailure ==
    \A k \in 1..N :
        (fate[k] \in Failures /\ JustAfter(k)) =>
            /\ disk[k] = pre[k]
            /\ ~tmp[k].exists
            /\ ~tempEpub.exists

\* C6 (batch resilience): when the run has ended and some archive could not be
\* processed, every archive was reached and every archive that could be
\* processed is replaced by its rewritten output
C6_BatchResilience ==
    (Terminated /\ \E k \in 1..N : fate[k] \in Failures) =>
        \A j \in 1..N :
            /\ fate[j] # "pending"
            /\ fate[j] = "ok" => disk[j] = out[j]

\* C7 (atomic replacement): at every point of the run every archive's path
\* holds a complete file, the pre-run one or the closed new archive
C7_AtomicReplacement ==
    \A k \in 1..N :
        /\ disk[k].exists
        /\ disk[k].complete
        /\ disk[k] = pre[k] \/ (fate[k] = "ok" /\ disk[k] = out[k])

\* C8 (replace on success): right after the iteration of an archive whose
\* rewrite succeeded, the new archive is at its path, neither its .temp file
\* nor temp.epub is on disk, and the loop has not ended on an error
C8_ReplaceOnSuccess ==
    \A k \in 1..N :
        (fate[k] = "ok" /\ JustAfter(k)) =>
            /\ disk[k] = out[k]
            /\ ~tmp[k].exists
            /\ ~tempEpub.exists
            /\ pc # "crashed"

\* C9 (new stylesheet): for an archive without a stylesheet part, the output
\* of responsive styling has exactly one stylesheet entry, holding one rule
\* block for the class; every document written from the package links the
\* stylesheet; and a package descriptor at the path the container file names
\* lists a part that resolves to the path the stylesheet was written to
C9_NewStylesheet ==
    \A k \in 1..N :
        (script = "resize" /\ fate[k] = "ok"
            /\ \A x \in 1..Len(ReadEpub(pre[k])) : ReadEpub(pre[k])[x].kind # "css") =>
            LET es == out[k].entries
                css == { x \in 1..Len(es) : EndsWith(es[x].path, <<".css">>) }
                opfPath == out[k].opfDir \o <<"content", ".opf">>
            IN  /\ Cardinality(css) = 1
                /\ \A x \in css : \E m \in Markers : es[x].content.rules = <<m>>
                /\ \A x \in 1..Len(es) :
                      (es[x].part # <<>> /\ EndsWith(es[x].part, <<".xhtml">>))
                          => InList(StyleHref, es[x].content.links)
                /\ \E x \in 1..Len(es), c \in css :
                      /\ es[x].path = opfPath
                      /\ \E y \in 1..Len(es[x].content.items) :
                            out[k].opfDir \o es[x].content.items[y] = es[c].path

\* what the edit makes of one image's class list and size attributes
ImgEdited(before, after, style_class) ==
    /\ ~after.width
    /\ ~after.height
    /\ ImgClasses(after) =
          IF InList(style_class, ImgClasses(before))
          THEN ImgClasses(before)
          ELSE Append(ImgClasses(before), style_class)

\* C10 as stated: the second run changes nothing, and on every image the class
\* occurs exactly once, the classes it had are kept, width and height are gone
C10_Original ==
    applied = 2 =>
        /\ doc = first
        /\ \A x \in 1..Len(doc.imgs) :
              /\ ImgEdited(doc0.imgs[x], doc.imgs[x], marker)
              /\ ClassCount(ImgClasses(doc.imgs[x]), marker) = 1

\* C10 (idempotence of responsive styling), amended: the second run changes
\* nothing, and on every image the classes it had are kept, width and height
\* are gone, and the class occurs once, or as often as the image carried it
\* before the first run when that was more than once
C10_Idempotent ==
    applied = 2 =>
        /\ doc = first
        /\ \A x \in 1..Len(doc.imgs) :
              /\ ImgEdited(doc0.imgs[x], doc.imgs[x], marker)
              /\ ClassCount(ImgClasses(doc.imgs[x]), marker) =
                    IF ClassCount(ImgClasses(doc0.imgs[x]), marker) > 1
                    THEN ClassCount(ImgClasses(doc0.imgs[x]), marker)
                    ELSE 1

\* C10's case: the edit ran twice on an image with a size attribute and with
\* classes of its own, none of them the generated one
C10_Witness ==
    /\ applied = 2
    /\ \E x \in 1..Len(doc0.imgs) :
          /\ doc0.imgs[x].width
          /\ ImgClasses(doc0.imgs[x]) # <<>>
          /\ ~InList(marker, ImgClasses(doc0.imgs[x]))
\* an archive's processing failed in some script run of the command
AnyFailed == everFailed \/ \E k \in 1..N : fate[k] \in Failures

\* C11 (exit code): a run with an action exits with 0 only if every archive of
\* the directory was processed successfully; it exits with a nonzero code if
\* the processing of an archive failed or the directory is invalid, and with
\* an invalid directory no archive is processed
C11_ExitCode ==
    /\ exitCode = 0 => (~AnyFailed /\ \A k \in 1..N : fate[k] = "ok")
    /\ (exitCode # -1 /\ (AnyFailed \/ ~dirValid)) => exitCode # 0
    /\ ~dirValid => (disk = pre /\ \A k \in 1..N : fate[k] = "pending")
\* the regenerated package descriptor is among the entries of the archive
RegenWritten(file) ==
    \E x \in 1..Len(file.entries) :
        /\ file.entries[x].content.kind = "opf"
        /\ file.entries[x].content.id = <<"generated">>

\* write_epub_style found no stylesheet and added the part Styles/style.css
NewStyle(file) == StyleIndex(ReadEpub(file)) = 0

\* C12 (deterministic strategy selection): responsive styling takes the
\* regeneration path for an archive exactly when it introduced a new
\* stylesheet for it, and two archives with the same entries in a different
\* order take the same path
C12_StrategySelection ==
    script = "resize" =>
        /\ \A k \in 1..N :
              fate[k] = "ok" => (RegenWritten(out[k]) <=> NewStyle(pre[k]))
        /\ \A k, j \in 1..N :
              (fate[k] = "ok" /\ fate[j] = "ok"
                  /\ { pre[k].entries[x] : x \in 1..Len(pre[k].entries) }
                       = { pre[j].entries[x] : x \in 1..Len(pre[j].entries) })
                  => (RegenWritten(out[k]) <=> RegenWritten(out[j]))
====
